---- MODULE Spec2Model ----
(***************************************************************************)
(* Model of the GCP IAM ServiceAccount managed-resource controller         *)
(* (pkg/controller/iam/managed.go): the connecter, the external client's   *)
(* Observe / Create / Update / Delete, the drift detector, the two         *)
(* projections and the RelativeResourceNamer, run against a model of the   *)
(* IAM API and of the managed reconciler that calls them.                  *)
(***************************************************************************)
EXTENDS Integers, Sequences, FiniteSets, TLC

(* ------------------------------------------------------------------ *)
(* Bounds and value sets                                               *)
(* ------------------------------------------------------------------ *)

\* How many service accounts the IAM API hands a fresh uniqueId to.
MaxCreates == 2

\* The managed objects the control plane may hold.
Objs == {"o1", "o2"}

\* The concrete kinds a resource.Managed may have: the expected one and
\* another managed kind of the provider.
Kinds == {"ServiceAccount", "Bucket"}

\* Values of displayName / description at the IAM API.
Strs == {"", "a"}

\* A *string of the custom resource: <<>> is nil, <<s>> points to s.
Ptrs == {<<>>} \cup {<<s>> : s \in Strs}

\* Project ids and external names the namer is exercised with.
Projects == {"p1", "p2", "p1/serviceAccounts/x@p1"}
Names == {"", "svc-a", "svc-b", "x@p1/serviceAccounts/svc-a"}

(* ------------------------------------------------------------------ *)
(* Error strings                                                       *)
(* ------------------------------------------------------------------ *)

errGetProvider == "cannot get Provider"
errProviderSecretRef == "cannot find Secret reference on Provider"
errGetProviderSecret == "cannot get Provider Secret"
errNewClient == "cannot create new GCP IAM API client"
errNotServiceAccount == "managed resource is not a GCP ServiceAccount"
errGet == "cannot get GCP ServiceAccount object via IAM API"
errCreate == "cannot create GCP ServiceAccount object via IAM API"
errUpdate == "cannot update GCP ServiceAccount object via IAM API"
errDelete == "cannot delete GCP ServiceAccount object via IAM API"

\* The nil error.
NoErr == "nil"

(* ------------------------------------------------------------------ *)
(* RelativeResourceNamer                                               *)
(* ------------------------------------------------------------------ *)

\* NewRelativeResourceNamer: the namer is the project name it binds.
NewRelativeResourceNamer(projectName) == [projectName |-> projectName]

\* ProjectName: fmt.Sprintf("projects/%s", rrn.projectName)
ProjectName(rrn) == "projects/" \o rrn.projectName

\* A ResourceName that addresses the project's default account, whatever
\* the external name.
ResourceNameNoName(rrn, externalName) ==
    "projects/" \o rrn.projectName \o "/serviceAccounts/default@"
        \o rrn.projectName \o ".iam.gserviceaccount.com"

\* A ResourceName that leaves the project out of the address.
ResourceNameNoProject(rrn, externalName) ==
    "serviceAccounts/" \o externalName \o ".iam.gserviceaccount.com"

\* ResourceName: fmt.Sprintf("projects/%s/serviceAccounts/%s@%s.iam.gserviceaccount.com", ...)
ResourceName(rrn, externalName) ==
    "projects/" \o rrn.projectName \o "/serviceAccounts/" \o externalName
        \o "@" \o rrn.projectName \o ".iam.gserviceaccount.com"

(* ------------------------------------------------------------------ *)
(* Values                                                              *)
(* ------------------------------------------------------------------ *)

\* gcp.StringValue: the string a pointer points to, "" for nil.
StringValue(p) == IF p = <<>> THEN "" ELSE p[1]

\* The zero iamv1.ServiceAccount (what a failed call hands back).
NilSA ==
    [DisplayName |-> "", Description |-> "", UniqueId |-> 0, Email |-> "",
     Oauth2ClientId |-> 0, Disabled |-> FALSE, Name |-> ""]

\* The zero ServiceAccountObservation (status.atProvider of a new object).
NoObservation ==
    [UniqueID |-> 0, Email |-> "", Oauth2ClientID |-> 0, Disabled |-> FALSE,
     Name |-> ""]

\* No provider call.
NoCall == <<>>


\* One request to the IAM API, as the client sends it.
Call(op, key, accountId, sa, mask) ==
    [op |-> op, key |-> key, accountId |-> accountId,
     displayName |-> sa.DisplayName, description |-> sa.Description,
     mask |-> mask]

\* What the IAM API answers: err is "nil", "notfound" or "other".
Response(err, sa) == [err |-> err, sa |-> sa]

\* The answer to a call that was never sent.
NoResponse == Response("nil", NilSA)

\* gcp.IsErrorNotFound
IsErrorNotFound(err) == err = "notfound"

\* errors.Wrap(err, message): nil stays nil, anything else carries the
\* static message of the operation.
Wrap(err, message) == IF err = "nil" THEN NoErr ELSE message

(* ------------------------------------------------------------------ *)
(* Drift detector and projections                                      *)
(* ------------------------------------------------------------------ *)

\* A drift detector that takes an unset field to ask for the empty string.
isUpToDateSymmetric(in, observed) ==
    /\ StringValue(in.DisplayName) = observed.DisplayName
    /\ StringValue(in.Description) = observed.Description

isUpToDate(in, observed) ==
    IF in.DisplayName # <<>> /\ in.DisplayName[1] # observed.DisplayName
    THEN FALSE
    ELSE IF in.Description # <<>> /\ in.Description[1] # observed.Description
    THEN FALSE
    ELSE TRUE

\* A projection that forgets the disabled flag.
populateCRFromProviderNoDisabled(atProvider, fromProvider) ==
    [UniqueID |-> fromProvider.UniqueId,
     Email |-> fromProvider.Email,
     Oauth2ClientID |-> fromProvider.Oauth2ClientId,
     Disabled |-> atProvider.Disabled,
     Name |-> fromProvider.Name]

populateCRFromProvider(atProvider, fromProvider) ==
    [UniqueID |-> fromProvider.UniqueId,
     Email |-> fromProvider.Email,
     Oauth2ClientID |-> fromProvider.Oauth2ClientId,
     Disabled |-> fromProvider.Disabled,
     Name |-> fromProvider.Name]

\* A projection that leaves the description out.
populateProviderFromCRNoDescription(forProvider, cr) ==
    [forProvider EXCEPT
        !.DisplayName = StringValue(cr.forProvider.DisplayName)]

populateProviderFromCR(forProvider, cr) ==
    [forProvider EXCEPT
        !.DisplayName = StringValue(cr.forProvider.DisplayName),
        !.Description = StringValue(cr.forProvider.Description)]

(* ------------------------------------------------------------------ *)
(* connecter.Connect                                                   *)
(* ------------------------------------------------------------------ *)

\* No *external at all.
NoClient == [ptr |-> FALSE, serviceAccounts |-> FALSE, rrn |-> NewRelativeResourceNamer("")]

\* What the control plane and the client constructor answer during one
\* Connect: whether the Provider can be fetched, whether it carries a
\* credentials secret reference, whether the Secret can be fetched, whether
\* newSAS succeeds.
ConnectInputs ==
    [getProvider : BOOLEAN, secretRef : BOOLEAN, getSecret : BOOLEAN,
     newSAS : BOOLEAN]

\* A step of Connect that ran, and whether it succeeded.
Step(name, ok) == [step |-> name, ok |-> ok]

\* A Connect that looks for the secret reference only after fetching the
\* secret.
ConnectLateCheck(cr, projectID, in) ==
    IF cr.kind # "ServiceAccount"
    THEN [steps |-> <<>>, client |-> NoClient, err |-> errNotServiceAccount]
    ELSE IF ~in.getProvider
    THEN [steps |-> <<Step("getProvider", FALSE)>>, client |-> NoClient,
          err |-> errGetProvider]
    ELSE IF ~in.getSecret
    THEN [steps |-> <<Step("getProvider", TRUE), Step("getSecret", FALSE)>>,
          client |-> NoClient, err |-> errGetProviderSecret]
    ELSE IF ~in.secretRef
    THEN [steps |-> <<Step("getProvider", TRUE), Step("getSecret", TRUE),
                      Step("secretRef", FALSE)>>,
          client |-> NoClient, err |-> errProviderSecretRef]
    ELSE [steps |-> <<Step("getProvider", TRUE), Step("getSecret", TRUE),
                      Step("secretRef", TRUE), Step("newSAS", in.newSAS)>>,
          client |-> [ptr |-> TRUE, serviceAccounts |-> in.newSAS,
                      rrn |-> NewRelativeResourceNamer(projectID)],
          err |-> IF in.newSAS THEN NoErr ELSE errNewClient]

\* Connect, as the steps it ran, the client it returned and its error.
\* newSAS hands back no service when it fails.
Connect(cr, projectID, in) ==
    IF cr.kind # "ServiceAccount"
    THEN [steps |-> <<>>, client |-> NoClient, err |-> errNotServiceAccount]
    ELSE IF ~in.getProvider
    THEN [steps |-> <<Step("getProvider", FALSE)>>, client |-> NoClient,
          err |-> errGetProvider]
    ELSE IF ~in.secretRef
    THEN [steps |-> <<Step("getProvider", TRUE), Step("secretRef", FALSE)>>,
          client |-> NoClient, err |-> errProviderSecretRef]
    ELSE IF ~in.getSecret
    THEN [steps |-> <<Step("getProvider", TRUE), Step("secretRef", TRUE),
                      Step("getSecret", FALSE)>>,
          client |-> NoClient, err |-> errGetProviderSecret]
    ELSE [steps |-> <<Step("getProvider", TRUE), Step("secretRef", TRUE),
                      Step("getSecret", TRUE), Step("newSAS", in.newSAS)>>,
          client |-> [ptr |-> TRUE, serviceAccounts |-> in.newSAS,
                      rrn |-> NewRelativeResourceNamer(projectID)],
          err |-> IF in.newSAS THEN NoErr ELSE errNewClient]

(* ------------------------------------------------------------------ *)
(* external: Observe, Create, Update, Delete                           *)
(* Each is split at its one call to the IAM API: <Op>Call is the       *)
(* request it sends (none when the type assertion fails), <Op> is what *)
(* it does with the response.                                          *)
(* ------------------------------------------------------------------ *)

\* The resource name of the account of an object in a project.
AccountName(projectID, cr) ==
    ResourceName(NewRelativeResourceNamer(projectID), cr.externalName)

\* managed.ExternalObservation{}
NoExternalObservation == [ResourceExists |-> FALSE, ResourceUpToDate |-> FALSE]

\* An Observe that asks for the account by its bare external name.
ObserveCallBareName(e, cr) ==
    IF cr.kind # "ServiceAccount" THEN NoCall
    ELSE <<Call("Get", cr.externalName, "", NilSA, "")>>

ObserveCall(e, cr) ==
    IF cr.kind # "ServiceAccount" THEN NoCall
    ELSE <<Call("Get", ResourceName(e.rrn, cr.externalName), "", NilSA, "")>>

\* An Observe that takes every failed get for "not found".
ObserveSwallow(e, cr, resp) ==
    IF cr.kind # "ServiceAccount"
    THEN [obs |-> NoExternalObservation, err |-> errNotServiceAccount,
          atProvider |-> cr.atProvider, writes |-> 0]
    ELSE IF resp.err # "nil"
    THEN [obs |-> [ResourceExists |-> FALSE, ResourceUpToDate |-> FALSE],
          err |-> NoErr, atProvider |-> cr.atProvider, writes |-> 0]
    ELSE [obs |-> [ResourceExists |-> TRUE,
                   ResourceUpToDate |-> isUpToDate(cr.forProvider, resp.sa)],
          err |-> NoErr,
          atProvider |-> populateCRFromProvider(cr.atProvider, resp.sa),
          writes |-> 1]

\* An Observe that reports every resource it finds as up to date.
ObserveNoDrift(e, cr, resp) ==
    IF cr.kind # "ServiceAccount"
    THEN [obs |-> NoExternalObservation, err |-> errNotServiceAccount,
          atProvider |-> cr.atProvider, writes |-> 0]
    ELSE IF IsErrorNotFound(resp.err)
    THEN [obs |-> [ResourceExists |-> FALSE, ResourceUpToDate |-> FALSE],
          err |-> NoErr, atProvider |-> cr.atProvider, writes |-> 0]
    ELSE IF resp.err # "nil"
    THEN [obs |-> NoExternalObservation, err |-> Wrap(resp.err, errGet),
          atProvider |-> cr.atProvider, writes |-> 0]
    ELSE [obs |-> [ResourceExists |-> TRUE, ResourceUpToDate |-> TRUE],
          err |-> NoErr,
          atProvider |-> populateCRFromProvider(cr.atProvider, resp.sa),
          writes |-> 1]

\* An Observe that clears status.atProvider when the account is not found.
ObserveClearOnNotFound(e, cr, resp) ==
    IF cr.kind # "ServiceAccount"
    THEN [obs |-> NoExternalObservation, err |-> errNotServiceAccount,
          atProvider |-> cr.atProvider, writes |-> 0]
    ELSE IF IsErrorNotFound(resp.err)
    THEN [obs |-> [ResourceExists |-> FALSE, ResourceUpToDate |-> FALSE],
          err |-> NoErr, atProvider |-> NoObservation, writes |-> 1]
    ELSE IF resp.err # "nil"
    THEN [obs |-> NoExternalObservation, err |-> Wrap(resp.err, errGet),
          atProvider |-> cr.atProvider, writes |-> 0]
    ELSE [obs |-> [ResourceExists |-> TRUE,
                   ResourceUpToDate |-> isUpToDate(cr.forProvider, resp.sa)],
          err |-> NoErr,
          atProvider |-> populateCRFromProvider(cr.atProvider, resp.sa),
          writes |-> 1]

Observe(e, cr, resp) ==
    IF cr.kind # "ServiceAccount"
    THEN [obs |-> NoExternalObservation, err |-> errNotServiceAccount,
          atProvider |-> cr.atProvider, writes |-> 0]
    ELSE IF IsErrorNotFound(resp.err)
    THEN [obs |-> [ResourceExists |-> FALSE, ResourceUpToDate |-> FALSE],
          err |-> NoErr, atProvider |-> cr.atProvider, writes |-> 0]
    ELSE IF resp.err # "nil"
    THEN [obs |-> NoExternalObservation, err |-> Wrap(resp.err, errGet),
          atProvider |-> cr.atProvider, writes |-> 0]
    ELSE [obs |-> [ResourceExists |-> TRUE,
                   ResourceUpToDate |-> isUpToDate(cr.forProvider, resp.sa)],
          err |-> NoErr,
          atProvider |-> populateCRFromProvider(cr.atProvider, resp.sa),
          writes |-> 1]

\* A Create whose request leaves the account id out.
CreateCallNoAccountId(e, cr) ==
    IF cr.kind # "ServiceAccount" THEN NoCall
    ELSE <<Call("Create", ProjectName(e.rrn), "",
                [NilSA EXCEPT
                    !.DisplayName = StringValue(cr.forProvider.DisplayName),
                    !.Description = StringValue(cr.forProvider.Description)],
                "")>>

\* A Create keyed, like the other calls, by the name of the account.
CreateCallFullName(e, cr) ==
    IF cr.kind # "ServiceAccount" THEN NoCall
    ELSE <<Call("Create", ResourceName(e.rrn, cr.externalName),
                cr.externalName,
                [NilSA EXCEPT
                    !.DisplayName = StringValue(cr.forProvider.DisplayName),
                    !.Description = StringValue(cr.forProvider.Description)],
                "")>>

CreateCall(e, cr) ==
    IF cr.kind # "ServiceAccount" THEN NoCall
    ELSE <<Call("Create", ProjectName(e.rrn), cr.externalName,
                [NilSA EXCEPT
                    !.DisplayName = StringValue(cr.forProvider.DisplayName),
                    !.Description = StringValue(cr.forProvider.Description)],
                "")>>

Create(e, cr, resp) ==
    IF cr.kind # "ServiceAccount"
    THEN [err |-> errNotServiceAccount, atProvider |-> cr.atProvider,
          writes |-> 0]
    ELSE IF resp.err # "nil"
    THEN [err |-> Wrap(resp.err, errCreate), atProvider |-> cr.atProvider,
          writes |-> 0]
    ELSE [err |-> Wrap(resp.err, errCreate),
          atProvider |-> populateCRFromProvider(cr.atProvider, resp.sa),
          writes |-> 1]

\* The update mask of every patch.
UpdateMask == "description,displayName"

\* An Update whose mask names only the fields the object sets.
UpdateCallSetOnly(e, cr) ==
    IF cr.kind # "ServiceAccount" THEN NoCall
    ELSE <<Call("Patch", ResourceName(e.rrn, cr.externalName), "",
                populateProviderFromCR(NilSA, cr),
                IF cr.forProvider.DisplayName = <<>>
                THEN (IF cr.forProvider.Description = <<>> THEN ""
                      ELSE "description")
                ELSE (IF cr.forProvider.Description = <<>> THEN "displayName"
                      ELSE "description,displayName"))>>

UpdateCall(e, cr) ==
    IF cr.kind # "ServiceAccount" THEN NoCall
    ELSE <<Call("Patch", ResourceName(e.rrn, cr.externalName), "",
                populateProviderFromCR(NilSA, cr), UpdateMask)>>

\* An Update that drops the error of the patch.
UpdateIgnoreError(e, cr, resp) ==
    IF cr.kind # "ServiceAccount"
    THEN [err |-> errNotServiceAccount, atProvider |-> cr.atProvider,
          writes |-> 0]
    ELSE [err |-> NoErr, atProvider |-> cr.atProvider, writes |-> 0]

\* An Update that projects the patch response into status.atProvider.
UpdateReproject(e, cr, resp) ==
    IF cr.kind # "ServiceAccount"
    THEN [err |-> errNotServiceAccount, atProvider |-> cr.atProvider,
          writes |-> 0]
    ELSE IF resp.err # "nil"
    THEN [err |-> Wrap(resp.err, errUpdate), atProvider |-> cr.atProvider,
          writes |-> 0]
    ELSE [err |-> NoErr,
          atProvider |-> populateCRFromProvider(cr.atProvider, resp.sa),
          writes |-> 1]

Update(e, cr, resp) ==
    IF cr.kind # "ServiceAccount"
    THEN [err |-> errNotServiceAccount, atProvider |-> cr.atProvider,
          writes |-> 0]
    ELSE [err |-> Wrap(resp.err, errUpdate), atProvider |-> cr.atProvider,
          writes |-> 0]

\* A Delete that sends its call whatever the kind of the object.
DeleteCallAnyKind(e, cr) ==
    <<Call("Delete", ResourceName(e.rrn, cr.externalName), "", NilSA, "")>>

DeleteCall(e, cr) ==
    IF cr.kind # "ServiceAccount" THEN NoCall
    ELSE <<Call("Delete", ResourceName(e.rrn, cr.externalName), "", NilSA, "")>>

\* A Delete that reports "not found" like any other error.
DeleteStrict(e, cr, resp) ==
    IF cr.kind # "ServiceAccount"
    THEN [err |-> errNotServiceAccount, atProvider |-> cr.atProvider,
          writes |-> 0]
    ELSE [err |-> Wrap(resp.err, errDelete), atProvider |-> cr.atProvider,
          writes |-> 0]

Delete(e, cr, resp) ==
    IF cr.kind # "ServiceAccount"
    THEN [err |-> errNotServiceAccount, atProvider |-> cr.atProvider,
          writes |-> 0]
    ELSE IF IsErrorNotFound(resp.err)
    THEN [err |-> NoErr, atProvider |-> cr.atProvider, writes |-> 0]
    ELSE [err |-> Wrap(resp.err, errDelete), atProvider |-> cr.atProvider,
          writes |-> 0]

(* ------------------------------------------------------------------ *)
(* The IAM API (projects.serviceAccounts), as the controller sees it    *)
(* ------------------------------------------------------------------ *)

\* The fields a patch's update mask names.
MaskFields(mask) ==
    CASE mask = "description,displayName" -> {"description", "displayName"}
      [] mask = "displayName,description" -> {"description", "displayName"}
      [] mask = "displayName" -> {"displayName"}
      [] mask = "description" -> {"description"}
      [] OTHER -> {}

\* The function st with name bound to sa.
Put(st, name, sa) ==
    [a \in DOMAIN st \cup {name} |-> IF a = name THEN sa ELSE st[a]]

\* The function st without name.
Drop(st, name) == [a \in DOMAIN st \ {name} |-> st[a]]

\* Get(name): the resource, NotFound, or (fault) another error.
IamGet(st, name, fault) ==
    IF fault # "none" THEN Response("other", NilSA)
    ELSE IF name \in DOMAIN st THEN Response("nil", st[name])
    ELSE Response("notfound", NilSA)

\* The account the API creates under parent for accountId, with a fresh id.
NewAccount(parent, project, c, id) ==
    [DisplayName |-> c.displayName, Description |-> c.description,
     UniqueId |-> id,
     Email |-> c.accountId \o "@" \o project \o ".iam.gserviceaccount.com",
     Oauth2ClientId |-> id, Disabled |-> FALSE,
     Name |-> parent \o "/serviceAccounts/" \o c.accountId \o "@" \o project
                 \o ".iam.gserviceaccount.com"]

\* Create(parent, {accountId, displayName, description}): the new resource
\* or an error. fault "fail" is an error with nothing created, fault "lost"
\* an error although the account was created.
IamCreate(st, c, id, fault) ==
    LET known == {p \in Projects : "projects/" \o p = c.key}
        project == CHOOSE p \in known : TRUE
        sa == NewAccount(c.key, project, c, id)
    IN  IF fault = "fail" \/ known = {} \/ c.accountId = ""
        THEN [resp |-> Response("other", NilSA), iam |-> st, made |-> FALSE]
        ELSE IF sa.Name \in DOMAIN st
        THEN [resp |-> Response("other", NilSA), iam |-> st, made |-> FALSE]
        ELSE IF fault = "lost"
        THEN [resp |-> Response("other", NilSA), iam |-> Put(st, sa.Name, sa),
              made |-> TRUE]
        ELSE [resp |-> Response("nil", sa), iam |-> Put(st, sa.Name, sa),
              made |-> TRUE]

\* Patch(name, {displayName, description}, updateMask): the fields the mask
\* names take the values of the request, the others keep theirs.
IamPatch(st, c, fault) ==
    IF fault # "none" THEN [resp |-> Response("other", NilSA), iam |-> st]
    ELSE IF c.key \notin DOMAIN st
    THEN [resp |-> Response("notfound", NilSA), iam |-> st]
    ELSE LET old == st[c.key]
             new == [old EXCEPT
                        !.DisplayName =
                            IF "displayName" \in MaskFields(c.mask)
                            THEN c.displayName ELSE @,
                        !.Description =
                            IF "description" \in MaskFields(c.mask)
                            THEN c.description ELSE @]
         IN  [resp |-> Response("nil", new), iam |-> Put(st, c.key, new)]

\* Delete(name): done, NotFound, or (fault) another error.
IamDelete(st, c, fault) ==
    IF fault # "none" THEN [resp |-> Response("other", NilSA), iam |-> st]
    ELSE IF c.key \notin DOMAIN st
    THEN [resp |-> Response("notfound", NilSA), iam |-> st]
    ELSE [resp |-> Response("nil", NilSA), iam |-> Drop(st, c.key)]

(* ------------------------------------------------------------------ *)
(* State                                                               *)
(* ------------------------------------------------------------------ *)

VARIABLES
    managed,    \* the objects the control plane holds
    cr,         \* per object: kind, name, externalName, deleted, forProvider,
                \* atProvider
    projectID,  \* per object: Spec.ProjectID of the Provider it references
    iam,        \* the service accounts at the IAM API, by resource name
    created,    \* how many unique ids the IAM API has handed out
    pc,         \* per object: where its reconcile is
    conn,       \* per object: the last Connect: its steps, client and error
    calls,      \* per object: the IAM calls of the current reconcile and their
                \* answers, in order
    writes,     \* per object: writes of status.atProvider in the current reconcile
    last,       \* per object: the last method run, its response and result
    namer,      \* the namer's inputs and outputs (the namer's own specification)
    lost        \* per object: its last Create returned an error although the
                \* IAM API made the account, which is still there

vars ==
    <<managed, cr, projectID, iam, created, pc, conn, calls, writes, last,
      namer, lost>>

\* The parameters a ServiceAccount may ask for.
Parameters == [DisplayName : Ptrs, Description : Ptrs]

\* No Connect has run yet.
NoConnect == [steps |-> <<>>, client |-> NoClient, err |-> NoErr]

\* Nothing has run yet.
NoLast ==
    [op |-> "none", sent |-> NoCall, resp |-> NoResponse, err |-> NoErr,
     obs |-> NoExternalObservation, before |-> NoObservation]

\* The namer has not been asked anything.
NoNamer == [in |-> <<>>, out |-> <<>>]

\* metadata.name of each object.
ObjName(o) == IF o = "o1" THEN "svc-a" ELSE "svc-b"

\* A new object of the control plane: ext is its external-name annotation,
\* empty when the user gave none.
NewCR(k, name, ext, params) ==
    [kind |-> k, name |-> name, externalName |-> ext, deleted |-> FALSE,
     forProvider |-> params, atProvider |-> NoObservation]

\* The objects the user may have written for o.
NewCRs(o) ==
    {NewCR(k, ObjName(o), ext, q) :
        k \in Kinds, ext \in {"", ObjName(o)}, q \in Parameters}

\* The state after construction: the objects in m exist and nothing has
\* been reconciled; the account of an object may already exist at the API.
InitWith(m) ==
    /\ managed = m
    /\ cr \in [Objs -> UNION {NewCRs(o) : o \in Objs}]
    /\ \A o \in m : cr[o] \in NewCRs(o)
    /\ \A o \in Objs \ m :
           cr[o] = NewCR("ServiceAccount", ObjName(o), ObjName(o),
                         [DisplayName |-> <<>>, Description |-> <<>>])
    /\ projectID = [o \in Objs |-> "p1"]
    /\ iam = <<>>
    /\ created = 0
    /\ pc = [o \in Objs |-> "new"]
    /\ conn = [o \in Objs |-> NoConnect]
    /\ calls = [o \in Objs |-> <<>>]
    /\ writes = [o \in Objs |-> 0]
    /\ last = [o \in Objs |-> NoLast]
    /\ lost = [o \in Objs |-> FALSE]

Init == InitWith({"o1"}) /\ namer = NoNamer

(* ------------------------------------------------------------------ *)
(* The managed reconciler: one reconcile of an object is Connect, then  *)
(* Observe, then Create, Update or nothing; an object marked for        *)
(* deletion gets Connect, then Delete.                                  *)
(* ------------------------------------------------------------------ *)

\* Where a reconcile goes after Connect.
AfterConnect(err, deleted) ==
    IF err # NoErr THEN "idle" ELSE IF deleted THEN "delete" ELSE "observe"

\* Where a reconcile goes after Observe.
AfterObserve(err, obs) ==
    IF err # NoErr THEN "idle"
    ELSE IF ~obs.ResourceExists THEN "create"
    ELSE IF ~obs.ResourceUpToDate THEN "update"
    ELSE "idle"

\* The entry of the call log: the request sent (none: no entry) and the
\* error the IAM API answered it with.
Logged(sent, resp) ==
    IF sent = NoCall THEN <<>> ELSE <<[req |-> sent[1], answer |-> resp.err]>>

\* The record of a method that has run.
Ran(op, sent, resp, r, obs, before) ==
    [op |-> op, sent |-> sent, resp |-> resp, err |-> r.err, obs |-> obs,
     before |-> before]

\* The objects whose account, made by a Create that returned an error, is
\* still among the accounts st.
StillLost(st) ==
    [q \in Objs |-> lost[q] /\ AccountName(projectID[q], cr[q]) \in DOMAIN st]

\* The faults the IAM API may answer a call with.
Faults == {"none", "fail"}
CreateFaults == {"none", "fail", "lost"}

\* The NameAsExternalName initializer: an object without an external name
\* gets its metadata.name as external name.
NameAsExternalName(mg) ==
    IF mg.externalName # "" THEN mg ELSE [mg EXCEPT !.externalName = mg.name]

\* The reconciler initializes a new object before it first connects.
ReconcileInitialize(o) ==
    /\ o \in managed
    /\ pc[o] = "new"
    /\ cr' = [cr EXCEPT ![o] = NameAsExternalName(cr[o])]
    /\ pc' = [pc EXCEPT ![o] = "idle"]
    /\ UNCHANGED <<managed, projectID, iam, created, conn, calls, writes,
                   last, namer, lost>>

\* A reconcile starts: the reconciler connects.
ReconcileConnect(o) ==
    /\ o \in managed
    /\ pc[o] = "idle"
    /\ \E in \in ConnectInputs :
          LET r == Connect(cr[o], projectID[o], in)
          IN  /\ conn' = [conn EXCEPT ![o] = r]
              /\ last' = [last EXCEPT ![o] =
                             Ran("Connect", NoCall, NoResponse, r,
                                 NoExternalObservation, cr[o].atProvider)]
              /\ pc' = [pc EXCEPT ![o] = AfterConnect(r.err, cr[o].deleted)]
    /\ calls' = [calls EXCEPT ![o] = <<>>]
    /\ writes' = [writes EXCEPT ![o] = 0]
    /\ UNCHANGED <<managed, cr, projectID, iam, created, namer, lost>>

ReconcileObserve(o) ==
    /\ pc[o] = "observe"
    /\ \E fault \in Faults :
          LET sent == ObserveCall(conn[o].client, cr[o])
              resp == IF sent = NoCall THEN NoResponse
                      ELSE IamGet(iam, sent[1].key, fault)
              r == Observe(conn[o].client, cr[o], resp)
          IN  /\ cr' = [cr EXCEPT ![o].atProvider = r.atProvider]
              /\ calls' = [calls EXCEPT ![o] = @ \o Logged(sent, resp)]
              /\ writes' = [writes EXCEPT ![o] = @ + r.writes]
              /\ last' = [last EXCEPT ![o] =
                             Ran("Observe", sent, resp, r, r.obs,
                                 cr[o].atProvider)]
              /\ pc' = [pc EXCEPT ![o] = AfterObserve(r.err, r.obs)]
    /\ UNCHANGED <<managed, projectID, iam, created, conn, namer, lost>>

ReconcileCreate(o) ==
    /\ pc[o] = "create"
    /\ \E fault \in CreateFaults :
          LET sent == CreateCall(conn[o].client, cr[o])
              api == IF sent = NoCall \/ created >= MaxCreates
                     THEN [resp |-> IF sent = NoCall THEN NoResponse
                                    ELSE Response("other", NilSA),
                           iam |-> iam, made |-> FALSE]
                     ELSE IamCreate(iam, sent[1], created + 1, fault)
              r == Create(conn[o].client, cr[o], api.resp)
          IN  /\ iam' = api.iam
              /\ created' = IF api.made THEN created + 1 ELSE created
              /\ cr' = [cr EXCEPT ![o].atProvider = r.atProvider]
              /\ calls' = [calls EXCEPT ![o] = @ \o Logged(sent, api.resp)]
              /\ writes' = [writes EXCEPT ![o] = @ + r.writes]
              /\ last' = [last EXCEPT ![o] =
                             Ran("Create", sent, api.resp, r,
                                 NoExternalObservation, cr[o].atProvider)]
    /\ pc' = [pc EXCEPT ![o] = "idle"]
    /\ lost' = [lost EXCEPT ![o] = last'[o].resp.err # "nil"
                                    /\ created' # created]
    /\ UNCHANGED <<managed, projectID, conn, namer>>

ReconcileUpdate(o) ==
    /\ pc[o] = "update"
    /\ \E fault \in Faults :
          LET sent == UpdateCall(conn[o].client, cr[o])
              api == IF sent = NoCall THEN [resp |-> NoResponse, iam |-> iam]
                     ELSE IamPatch(iam, sent[1], fault)
              r == Update(conn[o].client, cr[o], api.resp)
          IN  /\ iam' = api.iam
              /\ cr' = [cr EXCEPT ![o].atProvider = r.atProvider]
              /\ calls' = [calls EXCEPT ![o] = @ \o Logged(sent, api.resp)]
              /\ writes' = [writes EXCEPT ![o] = @ + r.writes]
              /\ last' = [last EXCEPT ![o] =
                             Ran("Update", sent, api.resp, r,
                                 NoExternalObservation, cr[o].atProvider)]
    /\ pc' = [pc EXCEPT ![o] = "idle"]
    /\ UNCHANGED <<managed, projectID, created, conn, namer, lost>>

ReconcileDelete(o) ==
    /\ pc[o] = "delete"
    /\ \E fault \in Faults :
          LET sent == DeleteCall(conn[o].client, cr[o])
              api == IF sent = NoCall THEN [resp |-> NoResponse, iam |-> iam]
                     ELSE IamDelete(iam, sent[1], fault)
              r == Delete(conn[o].client, cr[o], api.resp)
          IN  /\ iam' = api.iam
              /\ cr' = [cr EXCEPT ![o].atProvider = r.atProvider]
              /\ calls' = [calls EXCEPT ![o] = @ \o Logged(sent, api.resp)]
              /\ writes' = [writes EXCEPT ![o] = @ + r.writes]
              /\ last' = [last EXCEPT ![o] =
                             Ran("Delete", sent, api.resp, r,
                                 NoExternalObservation, cr[o].atProvider)]
    /\ pc' = [pc EXCEPT ![o] = "idle"]
    /\ lost' = StillLost(iam')
    /\ UNCHANGED <<managed, projectID, created, conn, namer>>

(* ------------------------------------------------------------------ *)
(* The world around the controller                                     *)
(* ------------------------------------------------------------------ *)

\* The user deletes the object: it is marked for deletion.
MarkDeleted(o) ==
    /\ o \in managed
    /\ ~cr[o].deleted
    /\ cr' = [cr EXCEPT ![o].deleted = TRUE]
    /\ UNCHANGED <<managed, projectID, iam, created, pc, conn, calls,
                   writes, last, namer, lost>>

\* Someone else creates the account of an object at the IAM API.
ExternalCreate(o) ==
    /\ o \in managed
    /\ created < MaxCreates
    /\ \E dn \in Strs, ds \in Strs :
          LET c == Call("Create",
                        ProjectName(NewRelativeResourceNamer(projectID[o])),
                        cr[o].externalName,
                        [NilSA EXCEPT !.DisplayName = dn, !.Description = ds],
                        "")
              api == IamCreate(iam, c, created + 1, "none")
          IN  /\ api.made
              /\ iam' = api.iam
    /\ created' = created + 1
    /\ UNCHANGED <<managed, cr, projectID, pc, conn, calls, writes,
                   last, namer, lost>>

\* Someone else changes an account at the IAM API.
ExternalChange(name) ==
    /\ name \in DOMAIN iam
    /\ \E dn \in Strs, ds \in Strs, dis \in BOOLEAN :
          LET new == [iam[name] EXCEPT !.DisplayName = dn,
                                       !.Description = ds, !.Disabled = dis]
          IN  /\ new # iam[name]
              /\ iam' = Put(iam, name, new)
    /\ UNCHANGED <<managed, cr, projectID, created, pc, conn, calls,
                   writes, last, namer, lost>>

\* Someone else deletes an account at the IAM API.
ExternalDelete(name) ==
    /\ name \in DOMAIN iam
    /\ iam' = Drop(iam, name)
    /\ lost' = StillLost(iam')
    /\ UNCHANGED <<managed, cr, projectID, created, pc, conn, calls,
                   writes, last, namer>>

Next ==
    \/ \E o \in Objs : ReconcileInitialize(o)
    \/ \E o \in Objs : ReconcileConnect(o)
    \/ \E o \in Objs : ReconcileObserve(o)
    \/ \E o \in Objs : ReconcileCreate(o)
    \/ \E o \in Objs : ReconcileUpdate(o)
    \/ \E o \in Objs : ReconcileDelete(o)
    \/ \E o \in Objs : MarkDeleted(o)
    \/ \E o \in Objs : ExternalCreate(o)
    \/ \E name \in DOMAIN iam : ExternalChange(name)
    \/ \E name \in DOMAIN iam : ExternalDelete(name)

Spec == Init /\ [][Next]_vars

(* ------------------------------------------------------------------ *)
(* Properties                                                          *)
(* ------------------------------------------------------------------ *)

\* C1. Idempotent delete: whenever Delete has sent its delete call, a
\* "not found" answer of the IAM API makes Delete return no error, and any
\* other error of the IAM API makes Delete return an error.
C1_IdempotentDelete ==
    \A o \in Objs :
        (last[o].op = "Delete" /\ last[o].sent # NoCall) =>
            /\ (last[o].resp.err = "notfound" => last[o].err = NoErr)
            /\ (last[o].resp.err = "other" => last[o].err = errDelete)

\* A Delete of an account that does not exist has returned success.
C1_Witness ==
    \E o \in Objs :
        /\ last[o].op = "Delete"
        /\ last[o].resp.err = "notfound"
        /\ last[o].sent[1].key \notin DOMAIN iam
        /\ last[o].err = NoErr

\* C2. Asymmetric drift: the up-to-date flag computed for desired parameters
\* and an observed account is false exactly when a field (display name,
\* description) that is set in the parameters differs from the observed
\* value; and for a field the parameters leave unset, no observed value of
\* that field changes the flag.
C2_AsymmetricDrift ==
    \A o \in Objs :
        (last[o].op = "Observe" /\ last[o].sent # NoCall
            /\ last[o].resp.err = "nil") =>
            LET in == cr[o].forProvider
                sa == last[o].resp.sa
                flag == last[o].obs.ResourceUpToDate
                differs ==
                    \/ \E v \in Strs : in.DisplayName = <<v>>
                                        /\ v # sa.DisplayName
                    \/ \E v \in Strs : in.Description = <<v>>
                                        /\ v # sa.Description
            IN  /\ flag = ~differs
                /\ in.DisplayName = <<>> =>
                       \A v \in Strs :
                           isUpToDate(in, [sa EXCEPT !.DisplayName = v]) = flag
                /\ in.Description = <<>> =>
                       \A v \in Strs :
                           isUpToDate(in, [sa EXCEPT !.Description = v]) = flag

\* An account whose description is not empty was found up to date for
\* parameters that leave the description unset.
C2_Witness ==
    \E o \in Objs :
        /\ last[o].op = "Observe"
        /\ last[o].resp.err = "nil"
        /\ cr[o].forProvider.Description = <<>>
        /\ cr[o].forProvider.DisplayName # <<>>
        /\ last[o].resp.sa.Description # ""
        /\ last[o].obs.ResourceUpToDate

\* C3. Observe outcome: when the get call is answered "not found", Observe
\* returns ResourceExists = false and no error; when it is answered with
\* another error, Observe returns an error; when it succeeds, Observe
\* returns no error, ResourceExists = true and ResourceUpToDate equal to
\* isUpToDate of the desired parameters and the fetched account.
C3_ObserveOutcome ==
    \A o \in Objs :
        (last[o].op = "Observe" /\ last[o].sent # NoCall) =>
            /\ last[o].resp.err = "notfound" =>
                   (~last[o].obs.ResourceExists /\ last[o].err = NoErr)
            /\ last[o].resp.err = "other" => last[o].err = errGet
            /\ last[o].resp.err = "nil" =>
                   /\ last[o].err = NoErr
                   /\ last[o].obs.ResourceExists
                   /\ last[o].obs.ResourceUpToDate =
                          isUpToDate(cr[o].forProvider, last[o].resp.sa)

\* An Observe has found an account that differs from the parameters.
C3_Witness ==
    \E o \in Objs :
        /\ last[o].op = "Observe"
        /\ last[o].resp.err = "nil"
        /\ last[o].obs.ResourceExists
        /\ ~last[o].obs.ResourceUpToDate

\* C4. Observe before create: in the call log of every reconcile, a create
\* call is never the first call, and the call right before it is the get
\* call of Observe, answered "not found".
C4_ObserveBeforeCreate ==
    \A o \in Objs :
        \A i \in 1..Len(calls[o]) :
            calls[o][i].req.op = "Create" =>
                /\ i > 1
                /\ calls[o][i - 1].req.op = "Get"
                /\ calls[o][i - 1].answer = "notfound"

\* A reconcile has issued a create call.
C4_Witness ==
    \E o \in Objs :
        \E i \in 1..Len(calls[o]) : calls[o][i].req.op = "Create"

\* C5. Update mask: every patch call carries the update mask naming exactly
\* description and displayName, whatever the parameters and the account are.
C5_UpdateMaskFixed ==
    \A o \in Objs :
        \A i \in 1..Len(calls[o]) :
            calls[o][i].req.op = "Patch" =>
                /\ calls[o][i].req.mask = "description,displayName"
                /\ MaskFields(calls[o][i].req.mask)
                       = {"description", "displayName"}

\* A patch was sent for parameters that set the display name only.
C5_Witness ==
    \E o \in Objs :
        /\ last[o].op = "Update"
        /\ last[o].sent # NoCall
        /\ cr[o].forProvider.DisplayName # <<>>
        /\ cr[o].forProvider.Description = <<>>

\* C6. No partial client: whenever Connect returns an error it returns no
\* client, and it returns a client only when every step it ran succeeded.
C6_NoPartialClient ==
    \A o \in Objs :
        /\ conn[o].err # NoErr => ~conn[o].client.ptr
        /\ conn[o].client.ptr =>
               \A i \in 1..Len(conn[o].steps) : conn[o].steps[i].ok

\* C7. Credential resolution order: the steps Connect runs are, in order,
\* the Provider fetch, the check of the secret reference, the Secret fetch
\* and the client construction; a step that fails is the last one run and
\* makes Connect return an error; without a secret reference Connect fails
\* with errProviderSecretRef, neither fetching the Secret nor constructing a
\* client; and a reconcile whose Connect failed issues no IAM call.
C7_ResolutionOrder ==
    \A o \in Objs :
        LET st == conn[o].steps
            order == <<"getProvider", "secretRef", "getSecret", "newSAS">>
        IN  /\ Len(st) <= Len(order)
            /\ \A i \in 1..Len(st) : st[i].step = order[i]
            /\ \A i \in 1..Len(st) :
                   ~st[i].ok => (i = Len(st) /\ conn[o].err # NoErr)
            /\ (\E i \in 1..Len(st) : st[i].step = "secretRef" /\ ~st[i].ok) =>
                   /\ conn[o].err = errProviderSecretRef
                   /\ \A i \in 1..Len(st) :
                          st[i].step \notin {"getSecret", "newSAS"}
            /\ conn[o].err # NoErr => (calls[o] = <<>> /\ pc[o] = "idle")

\* A Connect has failed for want of a secret reference.
C7_Witness ==
    \E o \in Objs :
        /\ last[o].op = "Connect"
        /\ conn[o].err = errProviderSecretRef
        /\ Len(conn[o].steps) = 2

\* C8. Absence is not a request to clear: a step of the reconciler that
\* calls the IAM API for an object leaves the display name, and the
\* description, of the object's account as it was when the object's
\* parameters leave that field unset and the account exists before and
\* after the step.
C8_UnsetNeverCleared ==
    [][\A o \in Objs :
          LET a == ResourceName(NewRelativeResourceNamer(projectID[o]),
                                cr[o].externalName)
          IN  (Len(calls'[o]) > Len(calls[o]) /\ a \in DOMAIN iam
                  /\ a \in DOMAIN iam') =>
                  /\ cr[o].forProvider.DisplayName = <<>> =>
                         iam'[a].DisplayName = iam[a].DisplayName
                  /\ cr[o].forProvider.Description = <<>> =>
                         iam'[a].Description = iam[a].Description]_vars

\* C9 as stated. Written exactly once per reconcile: when a reconcile that
\* began with Observe is over, status.atProvider has been written exactly
\* once in it.
C9_WrittenExactlyOnce ==
    \A o \in Objs :
        (pc[o] = "idle" /\ Len(calls[o]) >= 1 /\ calls[o][1].req.op = "Get")
            => writes[o] = 1

\* C9 as amended. status.atProvider is written at most once per reconcile:
\* once for the get call of Observe or the create call of Create that
\* succeeded (there is at most one such call), and not at all in a
\* reconcile in which neither did.
C9_WrittenAtMostOnce ==
    \A o \in Objs :
        LET wrote == {i \in 1..Len(calls[o]) :
                         /\ calls[o][i].req.op \in {"Get", "Create"}
                         /\ calls[o][i].answer = "nil"}
        IN  /\ writes[o] = Cardinality(wrote)
            /\ writes[o] <= 1

\* A reconcile has gone through Observe and Update, and wrote once.
C9_Witness ==
    \E o \in Objs :
        /\ pc[o] = "idle"
        /\ last[o].op = "Update"
        /\ last[o].resp.err = "nil"
        /\ writes[o] = 1

\* C10. Naming determinism: asked about two (project, name) pairs, the namer
\* gives the same resource name when the pairs are equal, different
\* resource names when only the projects or only the names differ; and the
\* project name is the same for equal projects whatever the names are.
C10_NamingDeterminism ==
    namer.out # <<>> =>
        LET p1 == namer.in[1]
            n1 == namer.in[2]
            p2 == namer.in[3]
            n2 == namer.in[4]
        IN  /\ (p1 = p2 /\ n1 = n2) => namer.out[1] = namer.out[2]
            /\ (p1 # p2 /\ n1 = n2) => namer.out[1] # namer.out[2]
            /\ (p1 = p2 /\ n1 # n2) => namer.out[1] # namer.out[2]
            /\ p1 = p2 => namer.out[3] = namer.out[4]
            /\ p1 # p2 => namer.out[3] # namer.out[4]

\* The namer was asked about one name in two projects.
C10_Witness ==
    /\ namer.out # <<>>
    /\ namer.in[1] # namer.in[3]
    /\ namer.in[2] = namer.in[4]

\* C11. ObservedState projection: after an Observe that found the account
\* and after a Create that succeeded, the five fields of status.atProvider
\* (UniqueID, Email, Oauth2ClientID, Disabled, Name) are those of the
\* account the call returned.
C11_ObservedStateProjection ==
    \A o \in Objs :
        (last[o].op \in {"Observe", "Create"} /\ last[o].sent # NoCall
            /\ last[o].resp.err = "nil") =>
            /\ cr[o].atProvider.UniqueID = last[o].resp.sa.UniqueId
            /\ cr[o].atProvider.Email = last[o].resp.sa.Email
            /\ cr[o].atProvider.Oauth2ClientID = last[o].resp.sa.Oauth2ClientId
            /\ cr[o].atProvider.Disabled = last[o].resp.sa.Disabled
            /\ cr[o].atProvider.Name = last[o].resp.sa.Name

\* An Observe has found a disabled account and projected it over a status
\* that said otherwise.
C11_Witness ==
    \E o \in Objs :
        /\ last[o].op = "Observe"
        /\ last[o].resp.err = "nil"
        /\ last[o].resp.sa.Disabled
        /\ ~last[o].before.Disabled
        /\ last[o].before.UniqueID # 0
        /\ cr[o].atProvider.Disabled

\* C12. No error is swallowed: Observe, Create, Update and Delete, once they
\* have sent their call, return an error exactly when the IAM API answered
\* with an error, except that "not found" is no error for Observe and for
\* Delete; when the call succeeds they return no error.
C12_NoErrorSwallowed ==
    \A o \in Objs :
        (last[o].op \in {"Observe", "Create", "Update", "Delete"}
            /\ last[o].sent # NoCall) =>
            LET asSuccess == /\ last[o].op \in {"Observe", "Delete"}
                             /\ last[o].resp.err = "notfound"
            IN  (last[o].err # NoErr)
                    = (last[o].resp.err # "nil" /\ ~asSuccess)

\* An Update whose patch was answered "not found" has returned an error.
C12_Witness ==
    \E o \in Objs :
        /\ last[o].op = "Update"
        /\ last[o].resp.err = "notfound"
        /\ last[o].err = errUpdate

C14_UpdateKeepsObservedState ==
    \A o \in Objs :
        last[o].op = "Update" => cr[o].atProvider = last[o].before

\* An Update has succeeded whose patch response would have projected to
\* another status.atProvider than the one the object has.
C14_Witness ==
    \E o \in Objs :
        /\ last[o].op = "Update"
        /\ last[o].resp.err = "nil"
        /\ populateCRFromProvider(cr[o].atProvider, last[o].resp.sa)
               # cr[o].atProvider

C17_RecoveryFromLostCreate ==
    \A o \in Objs :
        lost[o] =>
            /\ AccountName(projectID[o], cr[o]) \in DOMAIN iam
            /\ pc[o] # "create"
            /\ Len(SelectSeq(calls[o], LAMBDA c : c.req.op = "Create")) <= 1
            /\ last[o].op = "Create" => last[o].resp.err = "other"
            /\ (last[o].op = "Observe" /\ last[o].resp.err # "other") =>
                   /\ last[o].resp.err = "nil"
                   /\ last[o].err = NoErr
                   /\ last[o].obs.ResourceExists
                   /\ last[o].obs.ResourceUpToDate
                          = isUpToDate(cr[o].forProvider, last[o].resp.sa)
                   /\ pc[o] = IF last[o].obs.ResourceUpToDate
                              THEN "idle" ELSE "update"

\* After a Create that returned an error but made the account, the next
\* Observe has found the account, up to date, and filled a status that was
\* empty.
C17_Witness ==
    \E o \in Objs :
        /\ lost[o]
        /\ last[o].op = "Observe"
        /\ last[o].resp.err = "nil"
        /\ last[o].before = NoObservation
        /\ cr[o].atProvider.UniqueID # 0
        /\ pc[o] = "idle"

(* ------------------------------------------------------------------ *)
(* The namer on its own: two (project, external name) pairs are drawn,  *)
(* and the namer is asked for the addresses of both.                    *)
(* ------------------------------------------------------------------ *)

InitNamer ==
    /\ InitWith({})
    /\ cr = [o \in Objs |-> NewCR("ServiceAccount", ObjName(o), ObjName(o),
                                  [DisplayName |-> <<>>, Description |-> <<>>])]
    /\ namer \in {[in |-> <<p1, n1, p2, n2>>, out |-> <<>>] :
                     p1 \in Projects, n1 \in Names, p2 \in Projects,
                     n2 \in Names}

NamerAsk ==
    /\ namer.out = <<>>
    /\ LET rrn1 == NewRelativeResourceNamer(namer.in[1])
           rrn2 == NewRelativeResourceNamer(namer.in[3])
       IN  namer' = [namer EXCEPT !.out =
                        <<ResourceName(rrn1, namer.in[2]),
                          ResourceName(rrn2, namer.in[4]),
                          ProjectName(rrn1), ProjectName(rrn2)>>]
    /\ UNCHANGED <<managed, cr, projectID, iam, created, pc, conn, calls,
                   writes, last, lost>>

NextNamer == NamerAsk

SpecNamer == InitNamer /\ [][NextNamer]_vars


(* ------------------------------------------------------------------ *)
(* The four methods on their own: a caller holding a connected client   *)
(* calls Observe, Create, Update and Delete in any order, on an object  *)
(* of any kind; the call log and the write count are those of the one   *)
(* invocation.                                                          *)
(* ------------------------------------------------------------------ *)

\* The client a successful Connect builds for a project.
ApiClient(project) ==
    [ptr |-> TRUE, serviceAccounts |-> TRUE,
     rrn |-> NewRelativeResourceNamer(project)]

InitApi == InitWith({"o1"}) /\ namer = NoNamer

ApiObserve(o) ==
    /\ o \in managed
    /\ \E fault \in Faults :
          LET e == ApiClient(projectID[o])
              sent == ObserveCall(e, cr[o])
              resp == IF sent = NoCall THEN NoResponse
                      ELSE IamGet(iam, sent[1].key, fault)
              r == Observe(e, cr[o], resp)
          IN  /\ cr' = [cr EXCEPT ![o].atProvider = r.atProvider]
              /\ calls' = [calls EXCEPT ![o] = Logged(sent, resp)]
              /\ writes' = [writes EXCEPT ![o] = r.writes]
              /\ last' = [last EXCEPT ![o] =
                             Ran("Observe", sent, resp, r, r.obs,
                                 cr[o].atProvider)]
    /\ UNCHANGED <<managed, projectID, iam, created, pc, conn, namer, lost>>

ApiCreate(o) ==
    /\ o \in managed
    /\ \E fault \in CreateFaults :
          LET e == ApiClient(projectID[o])
              sent == CreateCall(e, cr[o])
              api == IF sent = NoCall \/ created >= MaxCreates
                     THEN [resp |-> IF sent = NoCall THEN NoResponse
                                    ELSE Response("other", NilSA),
                           iam |-> iam, made |-> FALSE]
                     ELSE IamCreate(iam, sent[1], created + 1, fault)
              r == Create(e, cr[o], api.resp)
          IN  /\ iam' = api.iam
              /\ created' = IF api.made THEN created + 1 ELSE created
              /\ cr' = [cr EXCEPT ![o].atProvider = r.atProvider]
              /\ calls' = [calls EXCEPT ![o] = Logged(sent, api.resp)]
              /\ writes' = [writes EXCEPT ![o] = r.writes]
              /\ last' = [last EXCEPT ![o] =
                             Ran("Create", sent, api.resp, r,
                                 NoExternalObservation, cr[o].atProvider)]
    /\ lost' = [lost EXCEPT ![o] = last'[o].resp.err # "nil"
                                    /\ created' # created]
    /\ UNCHANGED <<managed, projectID, pc, conn, namer>>

ApiUpdate(o) ==
    /\ o \in managed
    /\ \E fault \in Faults :
          LET e == ApiClient(projectID[o])
              sent == UpdateCall(e, cr[o])
              api == IF sent = NoCall THEN [resp |-> NoResponse, iam |-> iam]
                     ELSE IamPatch(iam, sent[1], fault)
              r == Update(e, cr[o], api.resp)
          IN  /\ iam' = api.iam
              /\ cr' = [cr EXCEPT ![o].atProvider = r.atProvider]
              /\ calls' = [calls EXCEPT ![o] = Logged(sent, api.resp)]
              /\ writes' = [writes EXCEPT ![o] = r.writes]
              /\ last' = [last EXCEPT ![o] =
                             Ran("Update", sent, api.resp, r,
                                 NoExternalObservation, cr[o].atProvider)]
    /\ UNCHANGED <<managed, projectID, created, pc, conn, namer, lost>>

ApiDelete(o) ==
    /\ o \in managed
    /\ \E fault \in Faults :
          LET e == ApiClient(projectID[o])
              sent == DeleteCall(e, cr[o])
              api == IF sent = NoCall THEN [resp |-> NoResponse, iam |-> iam]
                     ELSE IamDelete(iam, sent[1], fault)
              r == Delete(e, cr[o], api.resp)
          IN  /\ iam' = api.iam
              /\ cr' = [cr EXCEPT ![o].atProvider = r.atProvider]
              /\ calls' = [calls EXCEPT ![o] = Logged(sent, api.resp)]
              /\ writes' = [writes EXCEPT ![o] = r.writes]
              /\ last' = [last EXCEPT ![o] =
                             Ran("Delete", sent, api.resp, r,
                                 NoExternalObservation, cr[o].atProvider)]
    /\ lost' = StillLost(iam')
    /\ UNCHANGED <<managed, projectID, created, pc, conn, namer>>

NextApi ==
    \/ \E o \in Objs : ApiObserve(o)
    \/ \E o \in Objs : ApiCreate(o)
    \/ \E o \in Objs : ApiUpdate(o)
    \/ \E o \in Objs : ApiDelete(o)
    \/ \E o \in Objs : ExternalCreate(o)
    \/ \E name \in DOMAIN iam : ExternalChange(name)
    \/ \E name \in DOMAIN iam : ExternalDelete(name)

SpecApi == InitApi /\ [][NextApi]_vars

\* C16. No internal retry: an invocation of Observe, Create, Update or
\* Delete on a ServiceAccount issues exactly one call to the IAM API, whether
\* the call succeeds or fails; on an object of another kind it issues none,
\* returns an error, and changes neither the object nor the accounts.
C16_NoInternalRetry ==
    [][\A o \in Objs :
          (last'[o] # last[o] \/ calls'[o] # calls[o]) =>
              /\ last'[o].op \in {"Observe", "Create", "Update", "Delete"}
              /\ cr[o].kind = "ServiceAccount" =>
                     /\ Len(calls'[o]) = 1
                     /\ last'[o].sent = <<calls'[o][1].req>>
                     /\ calls'[o][1].answer = last'[o].resp.err
              /\ cr[o].kind # "ServiceAccount" =>
                     /\ calls'[o] = <<>>
                     /\ last'[o].sent = NoCall
                     /\ last'[o].err = errNotServiceAccount
                     /\ cr' = cr
                     /\ iam' = iam
                     /\ created' = created]_vars

\* A method has been invoked on an object of another kind while an account
\* of its name exists.
C16_Witness ==
    \E o \in Objs :
        /\ cr[o].kind # "ServiceAccount"
        /\ last[o].op = "Delete"
        /\ last[o].err = errNotServiceAccount
        /\ AccountName(projectID[o], cr[o]) \in DOMAIN iam

\* A method on a ServiceAccount has had its one call answered with an error.
C16_WitnessFailedCall ==
    \E o \in Objs :
        /\ cr[o].kind = "ServiceAccount"
        /\ last[o].op = "Update"
        /\ last[o].resp.err = "other"
        /\ Len(calls[o]) = 1

(* ------------------------------------------------------------------ *)
(* Two ServiceAccounts of one project reconciled side by side: the      *)
(* steps of their reconciles interleave in any order; the control plane *)
(* and the IAM API answer every call.                                   *)
(* ------------------------------------------------------------------ *)

InitTwo ==
    /\ InitWith(Objs)
    /\ namer = NoNamer
    /\ \A o \in Objs : /\ cr[o].kind = "ServiceAccount"
                       /\ cr[o].forProvider.Description = <<>>

TwoConnect(o) == ReconcileConnect(o) /\ conn'[o].err = NoErr

TwoObserve(o) == ReconcileObserve(o) /\ last'[o].resp.err # "other"

TwoCreate(o) == ReconcileCreate(o) /\ last'[o].resp.err = "nil"

TwoUpdate(o) == ReconcileUpdate(o) /\ last'[o].resp.err # "other"

TwoDelete(o) == ReconcileDelete(o) /\ last'[o].resp.err # "other"

\* Someone else changes the display name of an account.
TwoChange(name) ==
    /\ ExternalChange(name)
    /\ iam'[name].Description = iam[name].Description
    /\ iam'[name].Disabled = iam[name].Disabled

NextTwo ==
    \/ \E o \in Objs : ReconcileInitialize(o)
    \/ \E o \in Objs : TwoConnect(o)
    \/ \E o \in Objs : TwoObserve(o)
    \/ \E o \in Objs : TwoCreate(o)
    \/ \E o \in Objs : TwoUpdate(o)
    \/ \E o \in Objs : TwoDelete(o)
    \/ \E o \in Objs : MarkDeleted(o)
    \/ \E name \in DOMAIN iam : TwoChange(name)

SpecTwo == InitTwo /\ [][NextTwo]_vars

\* C18. Isolation of different resources: with two ServiceAccounts of one
\* project reconciled side by side, every call of an object is keyed by that
\* object's own account, the two accounts have different addresses, the
\* observed state of an object is that of its own account, and a step of
\* one object's reconcile leaves the other object, its reconcile and its
\* account at the IAM API as they were.
C18_Isolation ==
    [][\A o \in Objs : \A q \in Objs \ {o} :
          LET Addr(x) == "projects/" \o projectID[x] \o "/serviceAccounts/"
                             \o cr'[x].externalName \o "@" \o projectID[x]
                             \o ".iam.gserviceaccount.com"
              Account(st, x) == IF Addr(x) \in DOMAIN st
                                THEN <<st[Addr(x)]>> ELSE <<>>
          IN  /\ \A i \in 1..Len(calls'[o]) :
                     LET req == calls'[o][i].req
                     IN  IF req.op = "Create"
                         THEN /\ req.accountId = cr'[o].externalName
                              /\ req.key = "projects/" \o projectID[o]
                         ELSE req.key = Addr(o)
              /\ (pc'[o] # "new" /\ pc'[q] # "new") => Addr(o) # Addr(q)
              /\ cr'[o].atProvider # NoObservation =>
                     cr'[o].atProvider.Name = Addr(o)
              /\ pc'[o] # pc[o] =>
                     /\ cr'[q] = cr[q]
                     /\ pc'[q] = pc[q]
                     /\ conn'[q] = conn[q]
                     /\ calls'[q] = calls[q]
                     /\ writes'[q] = writes[q]
                     /\ last'[q] = last[q]
                     /\ Account(iam', q) = Account(iam, q)]_vars

\* One object's account has been deleted by its reconcile while the other
\* object's account, observed and patched by the other's reconcile, is
\* still there.
C18_Witness ==
    \E o \in Objs : \E q \in Objs \ {o} :
        /\ last[o].op = "Delete"
        /\ last[o].resp.err = "nil"
        /\ AccountName(projectID[o], cr[o]) \notin DOMAIN iam
        /\ last[q].op = "Update"
        /\ last[q].resp.err = "nil"
        /\ AccountName(projectID[q], cr[q]) \in DOMAIN iam
        /\ cr[q].atProvider.UniqueID # 0

(* ------------------------------------------------------------------ *)
(* One ServiceAccount with fixed parameters, reconciled for ever: every *)
(* call is answered without a fault, the account may exist before the   *)
(* first reconcile, nobody changes it, and it may be deleted from       *)
(* outside while the IAM API can still make it again.                   *)
(* ------------------------------------------------------------------ *)

InitConv ==
    /\ InitWith({"o1"})
    /\ namer = NoNamer
    /\ \A o \in managed : cr[o].kind = "ServiceAccount"

ConvConnect(o) == ReconcileConnect(o) /\ conn'[o].err = NoErr

ConvObserve(o) == ReconcileObserve(o) /\ last'[o].resp.err # "other"

ConvCreate(o) == ReconcileCreate(o) /\ last'[o].resp.err = "nil"

ConvUpdate(o) == ReconcileUpdate(o) /\ last'[o].resp.err # "other"

\* The account exists before the object is first reconciled.
ConvExisting(o) == ExternalCreate(o) /\ pc[o] = "new"

\* The account is deleted from outside.
ConvExternalDelete(name) == ExternalDelete(name) /\ created < MaxCreates

\* The steps of the reconciler.
ConvTick ==
    \/ \E o \in Objs : ReconcileInitialize(o)
    \/ \E o \in Objs : ConvConnect(o)
    \/ \E o \in Objs : ConvObserve(o)
    \/ \E o \in Objs : ConvCreate(o)
    \/ \E o \in Objs : ConvUpdate(o)

NextConv ==
    \/ ConvTick
    \/ \E o \in Objs : ConvExisting(o)
    \/ \E name \in DOMAIN iam : ConvExternalDelete(name)

\* Ticks are scheduled fairly: a reconcile that can take its next step
\* takes it.
SpecConv == InitConv /\ [][NextConv]_vars /\ WF_vars(ConvTick)

\* The account of o exists and has every parameter that o sets.
Converged(o) ==
    /\ AccountName(projectID[o], cr[o]) \in DOMAIN iam
    /\ isUpToDate(cr[o].forProvider, iam[AccountName(projectID[o], cr[o])])

\* C19. Convergence: with fixed parameters, fair ticks, no errors from the
\* IAM API and nobody changing the account, a Create or a Patch that
\* succeeds leaves the account up to date; while the account is up to date
\* every Observe returns ResourceExists and ResourceUpToDate and no Create
\* or Patch is sent; an Observe that does not find the account leads to
\* Create; the account that is missing (deleted from outside or never made)
\* gets made, and in the end the account stays up to date for ever.
C19_Convergence ==
    /\ [][\A o \in Objs :
             /\ (last'[o] # last[o] /\ last'[o].op \in {"Create", "Update"}
                     /\ last'[o].resp.err = "nil") => Converged(o)'
             /\ (Converged(o) /\ pc[o] = "observe" /\ pc'[o] # pc[o]) =>
                    /\ last'[o].obs.ResourceExists
                    /\ last'[o].obs.ResourceUpToDate
                    /\ last'[o].err = NoErr
                    /\ pc'[o] = "idle"
             /\ (Converged(o) /\ pc'[o] # pc[o]) =>
                    /\ pc'[o] \notin {"create", "update"}
                    /\ \A i \in 1..Len(calls'[o]) :
                           calls'[o][i].req.op = "Get"
             /\ (pc[o] = "observe" /\ pc'[o] # pc[o]
                     /\ AccountName(projectID[o], cr[o]) \notin DOMAIN iam) =>
                    /\ last'[o].resp.err = "notfound"
                    /\ pc'[o] = "create"]_vars
    /\ \A o \in Objs :
           (o \in managed
                /\ AccountName(projectID[o], cr[o]) \notin DOMAIN iam)
               ~> (AccountName(projectID[o], cr[o]) \in DOMAIN iam)
    /\ \A o \in Objs : <>[](o \in managed => Converged(o))

\* The account, made by Create, was deleted from outside, the next Observe
\* did not find it, Create made it again, and the Observe after that found
\* it up to date.
C19_Witness ==
    \E o \in Objs :
        /\ created = 2
        /\ cr[o].atProvider.UniqueID = 2
        /\ last[o].op = "Observe"
        /\ last[o].obs.ResourceExists
        /\ last[o].obs.ResourceUpToDate
        /\ Converged(o)
        /\ pc[o] = "idle"

\* An account that existed with other values has been patched and is now
\* up to date.
C19_WitnessPatched ==
    \E o \in Objs :
        /\ last[o].op = "Update"
        /\ last[o].resp.err = "nil"
        /\ Converged(o)

\* C20. Failed or empty calls leave the object unchanged: an Observe whose
\* get is answered not-found or with an error, a Create whose call is
\* answered with an error, and every Delete leave status.atProvider as it
\* was, a populated one included; status.atProvider changes only in an
\* Observe or a Create whose call succeeded; and no method changes
\* spec.forProvider or the external name.
C20_FailedCallsChangeNothing ==
    [][\A o \in Objs :
          /\ cr'[o].forProvider = cr[o].forProvider
          /\ cr'[o].externalName = cr[o].externalName
          /\ cr'[o].atProvider # cr[o].atProvider =>
                 /\ last'[o].op \in {"Observe", "Create"}
                 /\ last'[o].sent # NoCall
                 /\ last'[o].resp.err = "nil"
                 /\ last'[o].before = cr[o].atProvider
          /\ (\/ last'[o].op = "Delete"
              \/ last'[o].op \in {"Observe", "Create"}
                     /\ last'[o].resp.err # "nil") =>
                 cr'[o].atProvider = last'[o].before]_vars

\* An Observe was answered not-found for an object whose status.atProvider
\* holds the account observed earlier, and the status still holds it.
C20_Witness ==
    \E o \in Objs :
        /\ last[o].op = "Observe"
        /\ last[o].resp.err = "notfound"
        /\ last[o].before.UniqueID # 0
        /\ cr[o].atProvider = last[o].before
        /\ AccountName(projectID[o], cr[o]) \notin DOMAIN iam

====
